---- MODULE Spec2Model ----
(***************************************************************************)
(* Randomized Bayesian hierarchical clustering (rbhc.py).                  *)
(*                                                                         *)
(* rbhc.__init__ builds a root rbhc_Node over the data and calls           *)
(* recursive_split on it.  recursive_split asks rbhc_Node.as_split to      *)
(* either run bhc on the whole node (nk <= sub_size) or to subsample,      *)
(* cluster the subsample, filter the remaining rows through the top split  *)
(* of the subsample tree and recurse into the two children.                *)
(*                                                                         *)
(* The Python call stack is the variable stack: one frame per active       *)
(* recursive_split call, holding the rbhc_Node it works on, the locals of  *)
(* as_split / filter_data and the position in the code.  Row indexes are   *)
(* 1-based here (0-based in numpy).  Rows are values of Vals; floats       *)
(* (log_pi, marginal likelihoods) are integers, only compared and added.   *)
(*                                                                         *)
(* bhc (bhc.py) and the data model are imported by rbhc.py; they are       *)
(* modelled at their interface.  A bhc tree is never inspected by rbhc.py  *)
(* except for root_node.left_child / right_child in filter_data, so the    *)
(* top split of a bhc tree is resolved where filter_data first reads it.   *)
(***************************************************************************)
EXTENDS Bags, FiniteSets, Integers, Sequences, TLC

\* ---- bounds of the model ------------------------------------------------
\* largest number of rows of the dataset, largest sub_size
MaxN == 4
MaxM == 3

\* ---- inputs ---------------------------------------------------------------
\* the rows, the datasets (1 to MaxN rows, repeated rows allowed), sub_size,
\* crp_alpha (1 is the default of the constructors), the log_pi a bhc child
\* can carry, and the data models:
\*   "size"   scores a set of rows by minus its number of rows,
\*   "spread" by minus (largest row - smallest row); on equal rows every
\*            score is 0 and only log_pi decides.
Vals == {1, 2}
Datasets == UNION {[1..n -> Vals] : n \in 1..MaxN}
SubSizes == 1..MaxM
Alphas == {1, 2}
LogPis == {-1, 0}
DataModels == {"size", "spread"}

VARIABLES data, data_model, crp_alpha, sub_size, stack, ret, outcome,
          leaves, splitAttempts

vars == <<data, data_model, crp_alpha, sub_size, stack, ret, outcome,
          leaves, splitAttempts>>

\* ---- helpers ------------------------------------------------------------
\* rows[idx] for a set idx of indexes, in ascending order of the index
Take(rows, idx) ==
    LET F[i \in 0..Len(rows)] ==
          IF i = 0 THEN <<>>
          ELSE IF i \in idx THEN Append(F[i - 1], rows[i]) ELSE F[i - 1]
    IN F[Len(rows)]

\* np.arange(n), 1-based
arange(n) == [i \in 1..n |-> i]

RECURSIVE BagOfSeq(_)
\* the multiset of the rows of a sequence
BagOfSeq(rows) == IF rows = <<>> THEN EmptyBag
                  ELSE SetToBag({Head(rows)}) (+) BagOfSeq(Tail(rows))

RECURSIVE SeqMax(_)
SeqMax(rows) == IF Len(rows) = 1 THEN rows[1]
                ELSE LET t == SeqMax(Tail(rows))
                     IN IF rows[1] >= t THEN rows[1] ELSE t

RECURSIVE SeqMin(_)
SeqMin(rows) == IF Len(rows) = 1 THEN rows[1]
                ELSE LET t == SeqMin(Tail(rows))
                     IN IF rows[1] <= t THEN rows[1] ELSE t

\* np.vstack((rows, row)): rows with one more row appended
vstack(rows, row) == Append(rows, row)

\* ---- external collaborators ---------------------------------------------
\* data_model.log_marginal_likelihood(rows): a pure function of the rows.
log_marginal_likelihood(dm, rows) ==
    CASE dm = "size"   -> 0 - Len(rows)
      [] dm = "spread" -> 0 - (SeqMax(rows) - SeqMin(rows))

\* Python's None and an unset attribute
None == [kind |-> "None"]
NoBhc == [kind |-> "unset", data |-> <<>>, data_model |-> "", crp_alpha |-> 0]

\* bhc(data, data_model, crp_alpha): the exact cluster tree of the rows
bhc(rows, dm, alpha) ==
    [kind |-> "bhc", data |-> rows, data_model |-> dm, crp_alpha |-> alpha]

\* tree.root_node's (left_child, right_child): the top merge of the tree,
\* two non-empty sides of the tree's rows, each with its log_pi; a tree of
\* a single row is a single leaf whose children are None.
RootChildren(tree) ==
    LET n == Len(tree.data)
    IN IF n < 2 THEN {}
       ELSE {[left_child  |-> [data   |-> Take(tree.data, L),
                               log_pi |-> pl],
              right_child |-> [data   |-> Take(tree.data, (1..n) \ L),
                               log_pi |-> pr]] :
               L \in (SUBSET (1..n)) \ {{}, 1..n},
               pl \in LogPis, pr \in LogPis}

NoRoot == [left_child  |-> [data |-> <<>>, log_pi |-> 0],
           right_child |-> [data |-> <<>>, log_pi |-> 0]]

\* np.random.choice(np.arange(nk), sub_size, replace=False): the possible
\* draws; none when sub_size > nk (numpy raises ValueError)
Choice(nk, size) ==
    IF size > nk THEN {}
    ELSE {S \in SUBSET (1..nk) : Cardinality(S) = size}

\* ---- rbhc_Node ----------------------------------------------------------
NoChildren == [kind |-> "unset", bhc |-> NoBhc, nodes |-> <<>>]

\* rbhc_Node.__init__ together with the frame of the recursive_split call
\* that receives the node
rbhc_Node(rows, dm, alpha) ==
    [data        |-> rows,
     data_model  |-> dm,
     crp_alpha   |-> alpha,
     nk          |-> Len(rows),
     sub_indexes |-> {},
     sub_bhc     |-> NoBhc,
     root        |-> NoRoot,
     left_data   |-> <<>>,
     right_data  |-> <<>>,
     todo        |-> <<>>,
     evals       |-> <<>>,
     bhcCalls    |-> <<>>,
     nChoice     |-> 0,
     rBHC_split  |-> FALSE,
     children    |-> NoChildren,
     pc          |-> "as_split"]

\* the frame of recursive_split once as_split has returned a split: the call
\* goes on with rBHC_split and children only; the attributes as_split left
\* on parent_node (sub_indexes, sub_bhc, left_data, right_data) are read by
\* no later code and are dropped with the locals of as_split
AfterSplit(f, left_child, right_child) ==
    [rbhc_Node(f.data, f.data_model, f.crp_alpha) EXCEPT
        !.rBHC_split = TRUE,
        !.children = [kind |-> "nodes", bhc |-> NoBhc,
                      nodes |-> <<left_child, right_child>>],
        !.pc = "left"]

Top == stack[Len(stack)]
SetTop(f) == [stack EXCEPT ![Len(stack)] = f]
Running == outcome = "running" /\ stack # <<>>

\* variants of the test below: non-strict, and reversed
do_filter_ge(nk, size) == nk >= size
do_filter_lt(nk, size) == nk < size

\* the test of as_split that selects the rBHC filter branch
do_filter(nk, size) == nk > size

\* variant: every index of the node, the subsample included
notsub_indexes_all(f) == arange(f.nk)

\* notsub_indexes of filter_data: np.setdiff1d keeps arange's order
notsub_indexes(f) == Take(arange(f.nk), (1..f.nk) \ f.sub_indexes)

\* variant: the row is scored against the static seed of the left side
left_rows_seed(f, ind) == vstack(f.root.left_child.data, f.data[ind])

\* the rows handed to the two marginal-likelihood evaluations for row ind
left_rows(f, ind) == vstack(f.left_data, f.data[ind])
right_rows(f, ind) == vstack(f.right_data, f.data[ind])

left_prob(f, ind) ==
    f.root.left_child.log_pi
      + log_marginal_likelihood(f.data_model, left_rows(f, ind))
right_prob(f, ind) ==
    f.root.right_child.log_pi
      + log_marginal_likelihood(f.data_model, right_rows(f, ind))

\* variant: strict comparison, ties go right
goes_left_strict(lp, rp) == lp > rp

\* the comparison that sends a row to the left side
goes_left(lp, rp) == lp >= rp

\* variants: the left child built on the parent's data, the right child
\* built on left_data
left_child_data_parent(f) == f.data
right_child_data_left(f) == f.left_data

\* the data of the two child nodes created by as_split
left_child_data(f) == f.left_data
right_child_data(f) == f.right_data

\* variant: the whole data of the node instead of the subsample
sub_data_all(f, S) == f.data

\* the rows subsample_bhc hands to bhc (kept in the order of the node's
\* data; the data models do not look at the order of the rows)
sub_data(f, S) == Take(f.data, S)

\* the value recursive_split returns (it has no return statement)
recursive_split_result(f) == None

\* ---- the build ----------------------------------------------------------
Init ==
    /\ data \in Datasets
    /\ data_model \in DataModels
    /\ crp_alpha \in Alphas
    /\ sub_size \in SubSizes
    /\ stack = <<rbhc_Node(data, data_model, crp_alpha)>>
    /\ ret = None
    /\ outcome = "running"
    /\ leaves = EmptyBag
    /\ splitAttempts = 0

\* as_split, else branch: bhc on all the node's data; recursive_split then
\* prints "reached the leaves"
AsSplitBhc ==
    /\ Running
    /\ Top.pc = "as_split"
    /\ ~ do_filter(Top.nk, sub_size)
    /\ LET f == Top
           tree == bhc(f.data, f.data_model, f.crp_alpha)
       IN /\ stack' = SetTop([f EXCEPT
                          !.children = [kind |-> "bhc", bhc |-> tree,
                                        nodes |-> <<>>],
                          !.rBHC_split = FALSE,
                          !.bhcCalls = Append(f.bhcCalls,
                                              [data |-> f.data,
                                               crp_alpha |-> f.crp_alpha]),
                          !.pc = "return"])
          /\ leaves' = leaves (+) BagOfSeq(f.data)
    /\ UNCHANGED <<data, data_model, crp_alpha, sub_size, ret, outcome,
                   splitAttempts>>

\* as_split, rBHC branch, first call: subsample_bhc
SubsampleBhc ==
    /\ Running
    /\ Top.pc = "as_split"
    /\ do_filter(Top.nk, sub_size)
    /\ splitAttempts' = splitAttempts + 1
    /\ LET f == Top
       IN IF Choice(f.nk, sub_size) = {}
          THEN /\ outcome' = "ValueError"
               /\ stack' = SetTop([f EXCEPT !.nChoice = f.nChoice + 1])
          ELSE /\ outcome' = outcome
               /\ \E S \in Choice(f.nk, sub_size) :
                    stack' = SetTop([f EXCEPT
                        !.sub_indexes = S,
                        !.nChoice = f.nChoice + 1,
                        !.sub_bhc = bhc(sub_data(f, S), f.data_model,
                                        f.crp_alpha),
                        !.bhcCalls = Append(f.bhcCalls,
                                            [data |-> sub_data(f, S),
                                             crp_alpha |-> f.crp_alpha]),
                        !.pc = "filter_data"])
    /\ UNCHANGED <<data, data_model, crp_alpha, sub_size, ret, leaves>>

\* filter_data up to the loop: the seeds and the non-subset indexes
FilterDataInit ==
    /\ Running
    /\ Top.pc = "filter_data"
    /\ LET f == Top
           root_nodes == RootChildren(f.sub_bhc)
       IN IF root_nodes = {}
          THEN \* root_node.left_child is None: None.data raises
               /\ outcome' = "AttributeError"
               /\ stack' = stack
          ELSE /\ outcome' = outcome
               /\ \E rc \in root_nodes :
                    stack' = SetTop([f EXCEPT
                        !.root = rc,
                        !.left_data = rc.left_child.data,
                        !.right_data = rc.right_child.data,
                        !.todo = notsub_indexes(f),
                        !.pc = "loop"])
    /\ UNCHANGED <<data, data_model, crp_alpha, sub_size, ret, leaves,
                   splitAttempts>>

\* one iteration of the loop of filter_data
FilterDataStep ==
    /\ Running
    /\ Top.pc = "loop"
    /\ Top.todo # <<>>
    /\ LET f == Top
           ind == Head(f.todo)
           lp == left_prob(f, ind)
           rp == right_prob(f, ind)
           toLeft == goes_left(lp, rp)
       IN stack' = SetTop([f EXCEPT
              !.left_data = IF toLeft THEN vstack(f.left_data, f.data[ind])
                            ELSE f.left_data,
              !.right_data = IF toLeft THEN f.right_data
                             ELSE vstack(f.right_data, f.data[ind]),
              !.todo = Tail(f.todo),
              !.evals = Append(f.evals,
                               [ind |-> ind,
                                left_rows |-> left_rows(f, ind),
                                right_rows |-> right_rows(f, ind),
                                left_prob |-> lp,
                                right_prob |-> rp,
                                side |-> IF toLeft THEN "left"
                                         ELSE "right"])])
    /\ UNCHANGED <<data, data_model, crp_alpha, sub_size, ret, outcome,
                   leaves, splitAttempts>>

\* the loop is over: as_split creates the two children and returns them;
\* recursive_split calls itself on children[0]
CreateChildren ==
    /\ Running
    /\ Top.pc = "loop"
    /\ Top.todo = <<>>
    /\ LET f == Top
           left_child == rbhc_Node(left_child_data(f), f.data_model,
                                   f.crp_alpha)
           right_child == rbhc_Node(right_child_data(f), f.data_model,
                                    f.crp_alpha)
       IN stack' = Append(SetTop(AfterSplit(f, left_child, right_child)),
                          left_child)
    /\ UNCHANGED <<data, data_model, crp_alpha, sub_size, ret, outcome,
                   leaves, splitAttempts>>

\* the stack without its top frame
Caller == SubSeq(stack, 1, Len(stack) - 1)

\* recursive_split(children[0]) returns: the caller goes on with
\* recursive_split(children[1])
ReturnLeft ==
    /\ Running
    /\ Top.pc = "return"
    /\ Caller # <<>>
    /\ Caller[Len(Caller)].pc = "left"
    /\ ret' = recursive_split_result(Top)
    /\ LET p == Caller[Len(Caller)]
       IN stack' = Append([Caller EXCEPT ![Len(Caller)] =
                              [p EXCEPT !.pc = "right"]],
                          p.children.nodes[2])
    /\ UNCHANGED <<data, data_model, crp_alpha, sub_size, outcome, leaves,
                   splitAttempts>>

\* recursive_split(children[1]) returns: the caller has nothing left to do
\* and returns next
ReturnRight ==
    /\ Running
    /\ Top.pc = "return"
    /\ Caller # <<>>
    /\ Caller[Len(Caller)].pc = "right"
    /\ ret' = recursive_split_result(Top)
    /\ stack' = [Caller EXCEPT ![Len(Caller)] =
                    [Caller[Len(Caller)] EXCEPT !.pc = "return"]]
    /\ UNCHANGED <<data, data_model, crp_alpha, sub_size, outcome, leaves,
                   splitAttempts>>

\* recursive_split(root_node) returns to rbhc.__init__: the build is over
ReturnRoot ==
    /\ Running
    /\ Top.pc = "return"
    /\ Caller = <<>>
    /\ ret' = recursive_split_result(Top)
    /\ stack' = <<>>
    /\ outcome' = "done"
    /\ UNCHANGED <<data, data_model, crp_alpha, sub_size, leaves,
                   splitAttempts>>

Next ==
    \/ AsSplitBhc
    \/ SubsampleBhc
    \/ FilterDataInit
    \/ FilterDataStep
    \/ CreateChildren
    \/ ReturnLeft
    \/ ReturnRight
    \/ ReturnRoot

Spec == Init /\ [][Next]_vars

\* the interpreter always runs the next statement
FairSpec == Spec /\ WF_vars(Next)

\* ---- properties ---------------------------------------------------------
Frames == {stack[i] : i \in 1..Len(stack)}

RECURSIVE Assigned(_, _, _)
\* the rows the first k iterations of the filter loop sent to a side
Assigned(f, side, k) ==
    IF k = 0 THEN <<>>
    ELSE IF f.evals[k].side = side
         THEN Append(Assigned(f, side, k - 1), f.data[f.evals[k].ind])
         ELSE Assigned(f, side, k - 1)

\* filter_data has processed every non-subset row of the frame's node
Filtered(f) == f.pc = "loop" /\ f.todo = <<>>
\* as_split has returned the result of bhc on the frame's node
IsLeaf(f) == f.pc = "return" /\ ~ f.rBHC_split
\* as_split has returned two children
HasSplit(f) == f.children.kind = "nodes"

\* C1: when the build has finished, the rows handed to bhc at the terminal
\* leaves are, as a multiset, exactly the rows of the dataset.
C1_PartitionCompleteness ==
    outcome = "done" => leaves = BagOfSeq(data)

C1_Witness ==
    /\ outcome = "done"
    /\ splitAttempts >= 2
    /\ Len(data) > sub_size

\* C2: the build terminates (it returns, or it stops on an exception), it
\* makes at most n split attempts, and both children of every split are
\* strictly smaller than their parent.
C2_SplitBound ==
    /\ splitAttempts <= Len(data)
    /\ \A f \in Frames :
         HasSplit(f) => /\ Len(f.children.nodes[1].data) < f.nk
                        /\ Len(f.children.nodes[2].data) < f.nk

C2_TerminationBound == <>(outcome # "running") /\ []C2_SplitBound

C2_Witness ==
    /\ outcome = "done"
    /\ splitAttempts >= 2
    /\ splitAttempts = Len(data) - sub_size

\* C3: a node with nk <= sub_size is never sampled nor filtered; as_split
\* calls bhc once on all its rows with its crp_alpha and returns
\* (False, that tree); the filter branch is taken only when nk > sub_size.
C3_SmallInputPassthrough ==
    \A f \in Frames :
      /\ f.nk <= sub_size => f.pc \in {"as_split", "return"}
      /\ (f.nk <= sub_size /\ f.pc = "return") =>
            /\ f.nChoice = 0
            /\ f.sub_indexes = {}
            /\ f.sub_bhc = NoBhc
            /\ f.evals = <<>>
            /\ f.bhcCalls = <<[data |-> f.data, crp_alpha |-> f.crp_alpha]>>
            /\ f.rBHC_split = FALSE
            /\ f.children = [kind |-> "bhc",
                             bhc |-> bhc(f.data, f.data_model, f.crp_alpha),
                             nodes |-> <<>>]
      /\ (f.nChoice > 0 \/ f.rBHC_split) => f.nk > sub_size

C3_Witness ==
    \E f \in Frames : /\ IsLeaf(f)
                      /\ f.nk = sub_size
                      /\ Len(stack) > 1

\* C4: every non-subset row is appended to left_data exactly when its left
\* score is >= its right score; on equal scores it goes left.
C4_TieBreak ==
    \A f \in Frames :
      f.pc = "loop" =>
        /\ \A k \in 1..Len(f.evals) :
             LET e == f.evals[k]
             IN /\ e.left_prob = f.root.left_child.log_pi
                      + log_marginal_likelihood(f.data_model, e.left_rows)
                /\ e.right_prob = f.root.right_child.log_pi
                      + log_marginal_likelihood(f.data_model, e.right_rows)
                /\ (e.side = "left") <=> (e.left_prob >= e.right_prob)
        /\ f.left_data = f.root.left_child.data
                           \o Assigned(f, "left", Len(f.evals))
        /\ f.right_data = f.root.right_child.data
                           \o Assigned(f, "right", Len(f.evals))

C4_Witness ==
    \E f \in Frames :
      /\ f.pc = "loop"
      /\ \E k \in 1..Len(f.evals) :
           /\ f.evals[k].left_prob = f.evals[k].right_prob
           /\ f.evals[k].side = "left"
           /\ f.left_data[Len(f.root.left_child.data)
                            + Len(Assigned(f, "left", k))]
                = f.data[f.evals[k].ind]

\* C5: the rows scored for the k-th processed row on a side are the side's
\* seed, the rows sent to that side earlier in the pass, and the row itself.
C5_IncrementalConditioning ==
    \A f \in Frames :
      f.pc = "loop" =>
        \A k \in 1..Len(f.evals) :
          /\ f.evals[k].left_rows =
               (f.root.left_child.data \o Assigned(f, "left", k - 1))
                  \o <<f.data[f.evals[k].ind]>>
          /\ f.evals[k].right_rows =
               (f.root.right_child.data \o Assigned(f, "right", k - 1))
                  \o <<f.data[f.evals[k].ind]>>

C5_Witness ==
    \E f \in Frames :
      /\ f.pc = "loop"
      /\ \E k \in 2..Len(f.evals) :
           /\ f.evals[k - 1].side = "left"
           /\ f.evals[k].side = "left"
           /\ Len(f.evals[k].left_rows) = Len(f.root.left_child.data) + 2

\* C6 as stated: as_split on a node with sub_size > nk ends in the
\* insufficient-data error (numpy's ValueError of the sampler).
C6_InsufficientSampleFails ==
    \A f \in Frames :
      (sub_size > f.nk /\ f.pc # "as_split") => outcome = "ValueError"

\* C6 amended: as_split on a node with sub_size > nk never calls the
\* sampler; it returns (False, bhc of all the node's rows) and no
\* insufficient-data error arises anywhere in the build.
C6_NoSamplingOnSmallNode ==
    /\ outcome # "ValueError"
    /\ \A f \in Frames :
         /\ f.nChoice > 0 => sub_size <= f.nk
         /\ (sub_size > f.nk /\ f.pc # "as_split") =>
               /\ f.pc = "return"
               /\ f.nChoice = 0
               /\ ~ f.rBHC_split
               /\ f.children.kind = "bhc"

C6_Witness ==
    \E f \in Frames : /\ sub_size > f.nk
                      /\ f.pc = "return"
                      /\ f.children.kind = "bhc"

\* C7: the build returns the assembled tree: the bhc tree for a root that
\* did not split, a (left, right) pair for a root that split.
C7_TreeAssembled ==
    outcome = "done" =>
      IF Len(data) <= sub_size
      THEN ret = bhc(data, data_model, crp_alpha)
      ELSE ret.kind = "pair"

\* C8: once filter_data is over, left_data and right_data hold each row of
\* the node exactly once, and both are non-empty when both seeds are; the
\* two children as_split creates partition the node's data the same way.
C8_SplitPartition ==
    \A f \in Frames :
      /\ Filtered(f) =>
           /\ BagOfSeq(f.left_data) (+) BagOfSeq(f.right_data)
                = BagOfSeq(f.data)
           /\ Len(f.left_data) + Len(f.right_data) = f.nk
           /\ (f.root.left_child.data # <<>>
                 /\ f.root.right_child.data # <<>>)
                => (f.left_data # <<>> /\ f.right_data # <<>>)
      /\ HasSplit(f) =>
           /\ BagOfSeq(f.children.nodes[1].data)
                (+) BagOfSeq(f.children.nodes[2].data) = BagOfSeq(f.data)
           /\ f.children.nodes[1].nk + f.children.nodes[2].nk = f.nk

C8_Witness ==
    \E f \in Frames :
      /\ Filtered(f)
      /\ Len(f.evals) >= 2
      /\ Len(f.left_data) > Len(f.root.left_child.data)
      /\ Len(f.right_data) > Len(f.root.right_child.data)
      /\ Len(f.left_data) + Len(f.right_data) = f.nk

\* the probe tree of the frame's node exposes no root children
Degenerate(f) == f.sub_bhc.kind = "bhc" /\ RootChildren(f.sub_bhc) = {}

\* C9: a degenerate probe split is detected by as_split: the call returns
\* (False, leaf) or ends in a degenerate-split error, nothing else.
C9_DegenerateDetected ==
    \A f \in Frames :
      Degenerate(f) =>
        /\ outcome \in {"running", "done", "DegenerateSplitError"}
        /\ f.pc \in {"filter_data", "return"}
        /\ ~ f.rBHC_split

\* C10: every call of bhc gets at most sub_size rows: exactly sub_size rows
\* for the probe of a node with nk > sub_size, the node's nk <= sub_size
\* rows at a leaf; a visited node calls bhc exactly once.
C10_BhcInputBound ==
    \A f \in Frames :
      /\ \A k \in 1..Len(f.bhcCalls) : Len(f.bhcCalls[k].data) <= sub_size
      /\ f.pc = "as_split" => f.bhcCalls = <<>>
      /\ f.pc \in {"filter_data", "loop"} =>
           /\ Len(f.bhcCalls) = 1
           /\ Len(f.bhcCalls[1].data) = sub_size
           /\ f.bhcCalls[1].data = f.sub_bhc.data
           /\ f.nk > sub_size
      /\ IsLeaf(f) =>
           /\ Len(f.bhcCalls) = 1
           /\ f.bhcCalls[1].data = f.data
           /\ f.nk <= sub_size

C10_Witness ==
    \E f \in Frames :
      /\ Filtered(f)
      /\ Len(stack) > 1
      /\ Len(f.bhcCalls) = 1
      /\ Len(f.bhcCalls[1].data) = sub_size
====
